---- MODULE Spec2Model ----
(***************************************************************************)
(* SafeSpeak backend: the report analyzer (services/geminiService.js), the *)
(* report schema (models/Report.js), the request validation                *)
(* (utils/validation.js) and the POST /api/report handler                  *)
(* (routes/reportRoutes.js).                                               *)
(*                                                                         *)
(* A model response text is a sequence of tokens.  A token is one of       *)
(*   [t |-> "{"]  [t |-> "}"]      a brace character                       *)
(*   [t |-> "prose"]               a run of text without braces            *)
(*   [t |-> "kv", k, v]            a member  "k": v  with a scalar v       *)
(*   [t |-> "key[", k]             a member key and its opening  [         *)
(*   [t |-> "]"]                   the closing bracket of an array         *)
(*   [t |-> "null"]                the array element  null                 *)
(* Scalars are strings; the JavaScript values undefined and null are the   *)
(* reserved strings below.                                                 *)
(***************************************************************************)
EXTENDS Integers, Sequences, FiniteSets, TLC

\* ------------------------------------------------------------------ bounds
MaxProse == 2      \* tokens of prose before / after the JSON object
MaxSugg == 2       \* suggestions in a model response
MaxCalls == 2      \* report submissions in one behaviour
MaxConc == 2       \* analyzeReport calls in flight together
MaxTime == 2       \* ticks of the wall clock in one behaviour
TokenTtl == 1      \* ticks a token lives (config.jwtExpiresIn)
MaxReports == 3    \* documents in the reports collection of the admin API
TickMs == 15000    \* granularity of the clock while a call is in flight

\* ------------------------------------------------------- JavaScript values
undefined == "<undefined>"
null == "<null>"

\* Variant: only an absent value counts as missing.
Truthy_presentOnly(v) == v # undefined

\* JavaScript truthiness of a scalar (the operand of ! and ||).
Truthy(v) == v \notin {undefined, null, ""}

\* Variant: a ?? b, the default only for undefined and null.
OrElse_nullish(a, b) == IF a \in {undefined, null} THEN b ELSE a

\* a || b on scalars.
OrElse(a, b) == IF Truthy(a) THEN a ELSE b

\* String lengths of the scalars the model uses (String.prototype.length).
LongSummary == "<summary of 501 characters>"
length(s) ==
  CASE s = "" -> 0
    [] s = LongSummary -> 501
    [] s = "Analysis completed" -> 18
    [] s = "Brief summary" -> 13
    [] s = "Your report has been received. Our automated analysis is temporarily unavailable, but your report will be reviewed by our team." -> 127
    [] OTHER -> 1

\* ------------------------------------------------------------ the fallback
getFallbackResponse ==
  [aiAnalyzed |-> FALSE,
   aiCategory |-> "unknown",
   aiSeverity |-> "unknown",
   aiSummary |-> "Your report has been received. Our automated analysis is temporarily unavailable, but your report will be reviewed by our team.",
   aiSuggestions |-> <<
     [type |-> "hotline", name |-> "National Human Rights Helpline",
      description |-> "General support for human rights issues",
      contact |-> "1800-XXX-XXXX (toll-free)"],
     [type |-> "ngo", name |-> "Local Support Services",
      description |-> "Connect with local NGOs that can provide guidance",
      contact |-> "Visit your local community center"],
     [type |-> "legal", name |-> "Free Legal Aid",
      description |-> "Many areas offer free legal consultation",
      contact |-> "Search \"free legal aid\" + your location"] >>]

\* ------------------------------------------------------------------ tokens
LB == [t |-> "{"]
RB == [t |-> "}"]
Prose == [t |-> "prose"]
KV(k, v) == [t |-> "kv", k |-> k, v |-> v]
ArrOpen(k) == [t |-> "key[", k |-> k]
ArrClose == [t |-> "]"]
NullElem == [t |-> "null"]

RECURSIVE Concat(_)
Concat(ss) == IF ss = <<>> THEN <<>> ELSE Head(ss) \o Concat(Tail(ss))

\* JSON text of the members of an object: an undefined member is not written.
Member(k, v) == IF v = undefined THEN <<>> ELSE <<KV(k, v)>>

\* A suggestion value is a record [kind |-> "object", type, name, description,
\* contact] or the element null, [kind |-> "null"].
RenderSuggestion(s) ==
  IF s.kind = "null" THEN <<NullElem>>
  ELSE <<LB>> \o Member("type", s.type) \o Member("name", s.name)
       \o Member("description", s.description) \o Member("contact", s.contact)
       \o <<RB>>

\* The suggestions member: [kind |-> "undefined"], a scalar
\* [kind |-> "scalar", v], or an array [kind |-> "array", items].
RenderSuggestions(sg) ==
  CASE sg.kind = "undefined" -> <<>>
    [] sg.kind = "scalar" -> <<KV("suggestions", sg.v)>>
    [] sg.kind = "array" ->
         <<ArrOpen("suggestions")>>
         \o Concat([i \in 1..Len(sg.items) |-> RenderSuggestion(sg.items[i])])
         \o <<ArrClose>>

\* JSON text of the object the prompt asks for.
Render(o) ==
  <<LB>> \o Member("category", o.category) \o Member("severity", o.severity)
  \o Member("summary", o.summary) \o RenderSuggestions(o.suggestions) \o <<RB>>

\* ------------------------------------------------- text.match(/\{[\s\S]*\}/)
IndexesOf(text, tok) == {i \in 1..Len(text) : text[i] = tok}
Min(S) == CHOOSE x \in S : \A y \in S : x <= y
Max(S) == CHOOSE x \in S : \A y \in S : x >= y

\* The match starts at the first "{" that has a "}" after it and, the star
\* being greedy, runs to the last "}" of the text.  <<>> stands for null.
jsonMatch(text) ==
  LET opens == IndexesOf(text, LB)
      closes == IndexesOf(text, RB)
  IN IF opens = {} \/ closes = {} \/ Max(closes) < Min(opens) THEN <<>>
     ELSE SubSeq(text, Min(opens), Max(closes))

\* ------------------------------------------------------------- JSON.parse
ParseFail == [ok |-> FALSE, value |-> <<>>, next |-> 0]

EmptyAnalysis ==
  [category |-> undefined, severity |-> undefined, summary |-> undefined,
   suggestions |-> [kind |-> "undefined"]]

EmptySuggestion ==
  [kind |-> "object", type |-> undefined, name |-> undefined,
   description |-> undefined, contact |-> undefined]

\* obj[k] = v; a later member of the same name replaces an earlier one, a
\* member the code never reads is dropped.
Put(obj, k, v) ==
  IF k \notin DOMAIN obj \/ k = "kind" THEN obj
  ELSE IF k = "suggestions" THEN [obj EXCEPT ![k] = [kind |-> "scalar", v |-> v]]
  ELSE [obj EXCEPT ![k] = v]

RECURSIVE ParseMembers(_, _, _)
RECURSIVE ParseElements(_, _, _)

\* The members of an object up to its "}", from token i on.
ParseMembers(toks, i, obj) ==
  IF i > Len(toks) THEN ParseFail
  ELSE LET tk == toks[i] IN
    CASE tk.t = "}" -> [ok |-> TRUE, value |-> obj, next |-> i + 1]
      [] tk.t = "kv" -> ParseMembers(toks, i + 1, Put(obj, tk.k, tk.v))
      [] tk.t = "key[" ->
           LET a == ParseElements(toks, i + 1, <<>>) IN
           IF ~a.ok THEN ParseFail
           ELSE ParseMembers(toks, a.next,
                  IF tk.k \in DOMAIN obj
                  THEN [obj EXCEPT ![tk.k] = [kind |-> "array", items |-> a.value]]
                  ELSE obj)
      [] OTHER -> ParseFail

\* The elements of an array up to its "]", from token i on.
ParseElements(toks, i, acc) ==
  IF i > Len(toks) THEN ParseFail
  ELSE LET tk == toks[i] IN
    CASE tk.t = "]" -> [ok |-> TRUE, value |-> acc, next |-> i + 1]
      [] tk.t = "null" -> ParseElements(toks, i + 1, Append(acc, [kind |-> "null"]))
      [] tk.t = "{" ->
           LET o == ParseMembers(toks, i + 1, EmptySuggestion) IN
           IF ~o.ok THEN ParseFail
           ELSE ParseElements(toks, o.next, Append(acc, o.value))
      [] OTHER -> ParseFail

\* JSON.parse of a span that starts with "{": one object and nothing after it.
JSONparse(span) ==
  IF span = <<>> \/ Head(span) # LB THEN ParseFail
  ELSE LET r == ParseMembers(span, 2, EmptyAnalysis) IN
       IF r.ok /\ r.next = Len(span) + 1 THEN r ELSE ParseFail

\* ------------------------------------------- analyzeReport, lines 115 - 154
Return(v) == [kind |-> "return", value |-> v]
Throw(e) == [kind |-> "throw", error |-> e]
NoCompletion == [kind |-> "none"]

\* !analysis.suggestions: an array (an empty one too) is truthy.
TruthySuggestions(sg) ==
  CASE sg.kind = "undefined" -> FALSE
    [] sg.kind = "scalar" -> Truthy(sg.v)
    [] sg.kind = "array" -> TRUE

\* Variant: the contact of a suggestion is dropped.
mapSuggestion_noContact(s) ==
  [type |-> OrElse(s.type, "other"),
   name |-> OrElse(s.name, "Resource"),
   description |-> OrElse(s.description, ""),
   contact |-> ""]

\* The callback of analysis.suggestions.map.
mapSuggestion(s) ==
  [type |-> OrElse(s.type, "other"),
   name |-> OrElse(s.name, "Resource"),
   description |-> OrElse(s.description, ""),
   contact |-> OrElse(s.contact, "")]

\* Variant: what the reply did supply is kept in an unanalyzed result.
missingFields_merge(analysis) ==
  Return([getFallbackResponse EXCEPT
            !.aiCategory = OrElse(analysis.category, "unknown"),
            !.aiSeverity = OrElse(analysis.severity, "unknown")])

\* Lines 125 - 127: a required field is missing.
missingFields(analysis) == Throw("Missing required fields in AI response")

\* The body of the inner try: match, parse, required fields, the result.
tryParse(text) ==
  LET m == jsonMatch(text) IN
  IF m = <<>> THEN Throw("No JSON found in response")
  ELSE LET p == JSONparse(m) IN
  IF ~p.ok THEN Throw("SyntaxError")
  ELSE LET analysis == p.value IN
  IF ~Truthy(analysis.category) \/ ~Truthy(analysis.severity)
     \/ ~TruthySuggestions(analysis.suggestions)
  THEN missingFields(analysis)
  ELSE IF analysis.suggestions.kind # "array"
  THEN Throw("TypeError")    \* a string has no map
  ELSE LET items == analysis.suggestions.items IN
  IF \E i \in 1..Len(items) : items[i].kind = "null"
  THEN Throw("TypeError")    \* s.type of null
  ELSE Return([aiAnalyzed |-> TRUE,
               aiCategory |-> analysis.category,
               aiSeverity |-> analysis.severity,
               aiSummary |-> OrElse(analysis.summary, "Analysis completed"),
               aiSuggestions |-> [i \in 1..Len(items) |-> mapSuggestion(items[i])]])

\* Variant: the message of the parse error is put into the summary.
catchParseError_leak(parseError) ==
  Return([getFallbackResponse EXCEPT !.aiSummary = parseError])

\* catch (parseError): log and return the fallback.
catchParseError(parseError) == Return(getFallbackResponse)

\* Variant: the outer catch logs and rethrows.
catchError_rethrow(error) == Throw(error)

\* catch (error): log and return the fallback.
catchError(error) == Return(getFallbackResponse)

\* Lines 113 - 148: the parsing of the response text.
parseResponse(text) ==
  LET r == tryParse(text) IN
  IF r.kind = "throw" THEN catchParseError(r.error) ELSE r

\* A reply of the model: the object it wrote, with text before and after
\* it, or text alone.
NoObject ==
  [category |-> undefined, severity |-> undefined, summary |-> undefined,
   suggestions |-> [kind |-> "undefined"]]
Reply(pre, obj, post) == [hasObj |-> TRUE, pre |-> pre, obj |-> obj, post |-> post]
ProseReply(pre) == [hasObj |-> FALSE, pre |-> pre, obj |-> NoObject, post |-> <<>>]
NoReply == ProseReply(<<>>)
textOf(r) == IF r.hasObj THEN r.pre \o Render(r.obj) \o r.post ELSE r.pre

\* What settles Promise.race.  The model call resolves with a response whose
\* text() returns the text of a reply or throws, or it rejects; the timer
\* rejects.
Resolved(r) == [kind |-> "resolved", textThrows |-> FALSE, text |-> textOf(r), reply |-> r]
TextThrows == [kind |-> "resolved", textThrows |-> TRUE, text |-> <<>>, reply |-> NoReply]
Rejected == [kind |-> "rejected", textThrows |-> FALSE, text |-> <<>>, reply |-> NoReply]
TimedOut == [kind |-> "timeout", textThrows |-> FALSE, text |-> <<>>, reply |-> NoReply]
NoOutcome == [kind |-> "none", textThrows |-> FALSE, text |-> <<>>, reply |-> NoReply]

\* Variant: the model call is awaited alone.
racers_noTimer == {"resultPromise"}

\* Line 109: the promises that race.
racers == {"resultPromise", "timeoutPromise"}

\* Lines 109 - 148: the body of the outer try from the settling of the race.
tryBody(settled) ==
  IF settled.kind = "resolved" /\ ~settled.textThrows
  THEN parseResponse(settled.text)
  ELSE IF settled.kind = "resolved" THEN Throw("text() failed")
  ELSE IF settled.kind = "rejected" THEN Throw("API error")
  ELSE Throw("AI request timed out")

\* Lines 109 - 154: analyzeReport from the settling of the race on.
afterRace(settled) ==
  LET r == tryBody(settled) IN
  IF r.kind = "throw" THEN catchError(r.error) ELSE r

\* Why a call ended as it did (what the log lines of the code tell apart).
causeOf(settled) ==
  IF settled.kind = "resolved" /\ ~settled.textThrows
  THEN LET r == tryParse(settled.text) IN
       IF r.kind = "throw" THEN r.error ELSE "none"
  ELSE IF settled.kind = "timeout" THEN "AI request timed out"
  ELSE "API error"

\* ------------------------------------------------------ the model's replies
Categories == {undefined, "", "abuse", "spam"}
Severities == {undefined, null, "low", "extreme"}
Summaries == {undefined, "", "Brief summary", LongSummary}

Suggestion(ty, n, d, c) ==
  [kind |-> "object", type |-> ty, name |-> n, description |-> d, contact |-> c]

SuggestionElems ==
  { Suggestion("legal", "X", "Y", "Z"),
    Suggestion("ngo", "N", "", ""),
    Suggestion("blog", "", undefined, null),
    EmptySuggestion,
    [kind |-> "null"] }

SeqsUpTo(S, n) == UNION {[1..k -> S] : k \in 0..n}

SuggestionValues(n) ==
  {[kind |-> "undefined"], [kind |-> "scalar", v |-> "none"], [kind |-> "scalar", v |-> null]}
  \cup {[kind |-> "array", items |-> s] : s \in SeqsUpTo(SuggestionElems, n)}

\* The objects a reply may carry, with at most n suggestions.
Objects(n) ==
  [category : Categories, severity : Severities, summary : Summaries,
   suggestions : SuggestionValues(n)]

\* Text around the object: prose and stray braces.
ProseTexts == SeqsUpTo({Prose, LB, RB}, MaxProse)

\* Replies that are an object and nothing else.
PlainReplies(n) == {Reply(<<>>, o, <<>>) : o \in Objects(n)}

\* Replies with text before and after the object.
WrappedObjects ==
  {o \in Objects(1) : o.summary = undefined
                      /\ o.suggestions.kind = "array"
                      /\ \A i \in 1..Len(o.suggestions.items) :
                           o.suggestions.items[i] = Suggestion("legal", "X", "Y", "Z")}
WrappedReplies ==
  {Reply(pre, o, post) : pre \in ProseTexts, post \in ProseTexts, o \in WrappedObjects}

\* Every reply of the parsing specification.
Replies == PlainReplies(MaxSugg) \cup WrappedReplies \cup {ProseReply(x) : x \in ProseTexts}

\* The replies of the request pipeline: objects with at most one suggestion
\* in which category and severity vary or summary and suggestions do, a
\* refusal in prose, braces around prose, an object after prose.
PipelineObjects ==
  {o \in Objects(1) :
     \/ o.summary = "Brief summary"
        /\ o.suggestions = [kind |-> "array", items |-> <<Suggestion("legal", "X", "Y", "Z")>>]
     \/ o.category = "abuse" /\ o.severity = "low"}

PipelineReplies ==
  {Reply(<<>>, o, <<>>) : o \in PipelineObjects}
  \cup { ProseReply(<<Prose>>), ProseReply(<<LB, Prose, RB>>),
         Reply(<<Prose>>, [category |-> "abuse", severity |-> "low",
                           summary |-> undefined,
                           suggestions |-> [kind |-> "array", items |-> <<>>]], <<>>) }

PipelineOutcomes == {Resolved(r) : r \in PipelineReplies} \cup {TextThrows, Rejected}

\* ------------------------------------------- validation.js: reportSchema
\* A description is known by its length: ws characters of leading and
\* trailing whitespace around core other characters.
Description(ws, core) == [present |-> TRUE, ws |-> ws, core |-> core]
NoDescription == [present |-> FALSE, ws |-> 0, core |-> 0]
rawLength(d) == d.ws + d.core
trim(d) == [d EXCEPT !.ws = 0]

UserCategories == {"harassment", "corruption", "abuse", "discrimination", "other"}

\* validate(reportSchema, body): the string checks run in the order written,
\* min and max on the text as sent, then trim.
\* z.object keeps the keys of its shape and strips every other key.
validate(body) ==
  IF ~body.description.present
     \/ rawLength(body.description) < 10
     \/ rawLength(body.description) > 5000
     \/ body.category \notin UserCategories \cup {undefined, null}
  THEN [success |-> FALSE, data |-> body]
  ELSE [success |-> TRUE,
        data |-> [description |-> trim(body.description), category |-> body.category]]

Bodies ==
  { [description |-> Description(0, 10), category |-> "abuse",
     name |-> "Asha", email |-> "asha@example.org", phone |-> "555-0100",
     ip |-> "203.0.113.9"],
    [description |-> Description(1, 9), category |-> undefined],
    [description |-> Description(0, 9), category |-> undefined],
    [description |-> Description(0, 5001), category |-> null],
    [description |-> Description(0, 10), category |-> "spam"],
    [description |-> NoDescription, category |-> undefined] }

\* ------------------------------------------------ Report.js: reportSchema
AiCategories == {"harassment", "corruption", "abuse", "discrimination", "other", "unknown"}
AiSeverities == {"low", "medium", "high", "critical", "unknown"}

\* The validators of the schema, run by report.save().
schemaErrors(doc) ==
  (IF doc.description.core = 0 THEN {"Description is required"} ELSE {})
  \cup (IF doc.description.core > 0 /\ rawLength(doc.description) < 10
        THEN {"Description must be at least 10 characters"} ELSE {})
  \cup (IF rawLength(doc.description) > 5000
        THEN {"Description cannot exceed 5000 characters"} ELSE {})
  \cup (IF doc.userSelectedCategory \notin UserCategories \cup {null}
        THEN {"userSelectedCategory"} ELSE {})
  \cup (IF doc.aiCategory \notin AiCategories THEN {"aiCategory"} ELSE {})
  \cup (IF doc.aiSeverity \notin AiSeverities THEN {"aiSeverity"} ELSE {})
  \cup (IF length(doc.aiSummary) > 500 THEN {"aiSummary"} ELSE {})

\* Variant: the document is built from the whole request body.
newReport_spreadBody(reqBody, data, aiAnalysis) ==
  [description |-> data.description,
   userSelectedCategory |-> OrElse(data.category, null),
   aiCategory |-> aiAnalysis.aiCategory,
   aiSeverity |-> aiAnalysis.aiSeverity,
   aiSummary |-> aiAnalysis.aiSummary,
   aiSuggestions |-> aiAnalysis.aiSuggestions,
   aiAnalyzed |-> aiAnalysis.aiAnalyzed,
   status |-> "new",
   adminNotes |-> ""] @@ reqBody

\* new Report({description, userSelectedCategory: category || null, ...aiAnalysis})
\* in the handler, where req.body, validation.data and aiAnalysis are in
\* scope: the fields are named one by one, req.body is not used.
newReport(reqBody, data, aiAnalysis) ==
  [description |-> data.description,
   userSelectedCategory |-> OrElse(data.category, null),
   aiCategory |-> aiAnalysis.aiCategory,
   aiSeverity |-> aiAnalysis.aiSeverity,
   aiSummary |-> aiAnalysis.aiSummary,
   aiSuggestions |-> aiAnalysis.aiSuggestions,
   aiAnalyzed |-> aiAnalysis.aiAnalyzed,
   status |-> "new",
   adminNotes |-> ""]

\* ------------------------------------------------------------------- state
VARIABLES
  geminiApiKey,   \* config.geminiApiKey is set
  model,          \* the module-level model handle is not null
  pc,             \* where the POST /api/report handler stands
  nreq,           \* requests received so far
  body,           \* req.body of the current request
  elapsed,        \* ms since the current call armed its timer
  timer,          \* the timer of the current call: none, armed, fired
  resultPromise,  \* model.generateContent's promise: none, pending, settled
  outcome,        \* what settled the race of the current call
  completion,     \* how analyzeReport completed: none, return, throw
  cause,          \* why it completed so
  prev,           \* cause and result of the previous call, if it failed
  modelCalls,     \* generateContent calls issued since load
  callCount,      \* generateContent calls issued by the current call
  reportCount,    \* documents in the reports collection
  saved,          \* the document the current request stored
  status,         \* the HTTP status of the current response, 0 before it
  aiStatus,       \* the last answer of getAIStatus, if it was asked
  calls,          \* the analyzeReport calls in flight together, by call
  locals,         \* the local "result" of analyzeReport, by frame
  heap,           \* result objects built so far
  now,            \* the wall clock
  admins,         \* the admins collection, by username
  tokens,         \* the tokens generateToken has signed
  adminReq,       \* the request to /api/admin being served, if any
  adminRes,       \* the response to it
  dbPc,           \* startServer: boot, connecting, waiting, listening
  attempt,        \* connectDatabase's loop variable
  tries,          \* mongoose.connect calls made
  waited,         \* ms connectDatabase has waited between attempts
  connResult,     \* what connectDatabase returned: none, true, false
  isConnected,    \* database.js: let isConnected
  connectionError,\* database.js: let connectionError
  listeners,      \* the connection's event handlers are registered
  link,           \* the connection to MongoDB is up
  healthRes,      \* the last answer of GET /health, if it was asked
  reports,        \* the reports collection, oldest first
  reportReq,      \* the admin's request on reports being served, if any
  reportRes,      \* the response to it
  localStorage,   \* the browser's localStorage: the token and the admin profile
  pathname,       \* window.location.pathname, the page on screen
  from,           \* location.state.from of the login page
  auth            \* the state of useAuth on this page

\* The state of the admin API.
adminVars == <<now, admins, tokens, adminReq, adminRes>>

\* The state of the database connection and of the health check.
dbVars ==
  <<dbPc, attempt, tries, waited, connResult, isConnected, connectionError,
    listeners, link, healthRes>>

\* The state behind the analyzer and the report submission.
clientVars == <<localStorage, pathname, from, auth>>

backVars == <<adminVars, dbVars, reports, reportReq, reportRes, clientVars>>

\* The state of the analyzer and of the report submission.
frontVars ==
  <<geminiApiKey, model, pc, nreq, body, elapsed, timer, resultPromise,
    outcome, completion, cause, prev, modelCalls, callCount, reportCount,
    saved, status, aiStatus, calls, locals, heap>>

\* What the admin API leaves alone.
outsideAdmin == <<frontVars, dbVars, reports, reportReq, reportRes, clientVars>>

\* What the database connection and the health check leave alone.
outsideDb == <<frontVars, adminVars, reports, reportReq, reportRes, clientVars>>

\* What the admin's requests on reports leave alone.
outsideReports == <<frontVars, adminVars, dbVars, clientVars>>

\* What the browser client leaves alone.
outsideClient == <<frontVars, adminVars, dbVars, reports, reportReq, reportRes>>

\* What the report pipeline leaves alone.
otherVars == <<aiStatus, calls, locals, heap, backVars>>

\* The state of the report pipeline.
pipelineVars ==
  <<geminiApiKey, model, pc, nreq, body, elapsed, timer, resultPromise,
    outcome, completion, cause, prev, modelCalls, callCount, reportCount,
    saved, status>>

vars == <<pipelineVars, otherVars>>

timeoutMs == 30000

NoBody == [description |-> NoDescription, category |-> undefined]
NoPrev == [failed |-> FALSE, cause |-> "none", value |-> getFallbackResponse]
NoDoc == [kind |-> "none"]
NoStatus == [asked |-> FALSE]
CallIds == 1..MaxConc

\* The admins collection holds one admin, "root", created before the
\* server starts; the operator of the database may deactivate or delete it.
\* lastLogin is the set of the one date it holds, empty for null.
NoAdmin == [exists |-> FALSE, isActive |-> FALSE, password |-> "", lastLogin |-> {}]
NoRequest == [route |-> "none"]
NoResponse == [status |-> 0]

InitAdmin ==
  /\ now = 0
  /\ admins = [u \in {"root"} |->
                 [exists |-> TRUE, isActive |-> TRUE, password |-> "s3cret",
                  lastLogin |-> {}]]
  /\ tokens = {}
  /\ adminReq = NoRequest
  /\ adminRes = NoResponse

NoHealth == [asked |-> FALSE]

InitDb ==
  /\ dbPc = "boot"
  /\ attempt = 0
  /\ tries = 0
  /\ waited = 0
  /\ connResult = "none"
  /\ isConnected = FALSE
  /\ connectionError = null
  /\ listeners = FALSE
  /\ link = FALSE
  /\ healthRes = NoHealth

InitReports ==
  /\ reports = <<>>
  /\ reportReq = NoRequest
  /\ reportRes = NoResponse

\* useAuth's useState initialisers: the state a page starts with, read
\* from the storage.
useState(storage) ==
  [isAuthenticated |-> storage.safespeak_admin_token # null,
   admin |-> storage.safespeak_admin,
   isLoading |-> FALSE,
   error |-> null]

\* A browser that never logged in, on the home page.
InitClient ==
  /\ localStorage = [safespeak_admin_token |-> null, safespeak_admin |-> null]
  /\ pathname = "/"
  /\ from = "/admin"
  /\ auth = useState(localStorage)

InitBack == InitAdmin /\ InitDb /\ InitReports /\ InitClient
NoCall ==
  [pc |-> "idle", timer |-> "none", resultPromise |-> "none",
   outcome |-> NoOutcome, completion |-> NoCompletion, ref |-> 0]

\* Variant: the handle is created whether or not a key is configured.
loadModel_always(key) == TRUE

\* Lines 20 - 29: the handle exists exactly when a key is configured.
loadModel(key) == key

Init ==
  /\ geminiApiKey \in BOOLEAN
  /\ model = loadModel(geminiApiKey)
  /\ pc = "idle"
  /\ nreq = 0
  /\ body = NoBody
  /\ elapsed = 0
  /\ timer = "none"
  /\ resultPromise = "none"
  /\ outcome = NoOutcome
  /\ completion = NoCompletion
  /\ cause = "none"
  /\ prev = NoPrev
  /\ modelCalls = 0
  /\ callCount = 0
  /\ reportCount = 0
  /\ saved = NoDoc
  /\ status = 0
  /\ aiStatus = NoStatus
  /\ calls = [i \in CallIds |-> NoCall]
  /\ locals = [i \in CallIds |-> NoOutcome]
  /\ heap = 0
  /\ InitBack

\* Lines 88 - 92: without a model handle the fallback is returned at once.
notConfigured(m) == ~m

\* Variant: the delay is taken in seconds.
timerDue_seconds(ms) == ms >= timeoutMs \div 1000

\* The timer callback may run once timeoutMs have elapsed.
timerDue(ms) == ms >= timeoutMs

\* Variant: a second attempt is issued with the first.
generateContent_twice(issued) == issued + 2

\* Line 104: model.generateContent(fullPrompt) is called once, outside any
\* loop; the count of calls issued goes up by one.
generateContent(issued) == issued + 1

\* Variant: the continuation runs on every settling, not only the first.
awaitingRace_every(p) == p \in {"race", "analyzed", "responded"}

\* Line 109: the continuation of await Promise.race runs once, on the first
\* promise to settle, while the call stands at the await.
awaitingRace(p) == p = "race"

\* What the previous call leaves behind for the comparison of failures.
remember ==
  IF completion.kind = "return" /\ cause # "none"
  THEN [failed |-> TRUE, cause |-> cause, value |-> completion.value]
  ELSE IF completion.kind = "none" THEN prev
  ELSE NoPrev

\* POST /api/report up to the first await that waits: validation, then the
\* call of analyzeReport up to Promise.race.
Submit(b) ==
  /\ pc = "idle"
  /\ nreq < MaxCalls
  /\ nreq' = nreq + 1
  /\ body' = b
  /\ outcome' = NoOutcome
  /\ saved' = NoDoc
  /\ prev' = remember
  /\ UNCHANGED <<geminiApiKey, model, reportCount>>
  /\ UNCHANGED otherVars
  /\ IF ~validate(b).success
     THEN /\ pc' = "responded"
          /\ status' = 400
          /\ completion' = NoCompletion
          /\ cause' = "none"
          /\ callCount' = 0
          /\ UNCHANGED <<elapsed, timer, resultPromise, modelCalls>>
     ELSE IF notConfigured(model)
     THEN /\ pc' = "analyzed"
          /\ status' = 0
          /\ completion' = Return(getFallbackResponse)
          /\ cause' = "AI not configured"
          /\ callCount' = 0
          /\ UNCHANGED <<elapsed, timer, resultPromise, modelCalls>>
     ELSE /\ pc' = "race"
          /\ status' = 0
          /\ completion' = NoCompletion
          /\ cause' = "none"
          /\ callCount' = generateContent(0)
          /\ modelCalls' = generateContent(modelCalls)
          /\ resultPromise' = "pending"
          /\ timer' = "armed"
          /\ elapsed' = 0

\* The model call settles while analyzeReport awaits the race.
ModelSettles(o) ==
  /\ awaitingRace(pc)
  /\ resultPromise = "pending"
  /\ resultPromise' = "settled"
  /\ outcome' = o
  /\ completion' = afterRace(o)
  /\ cause' = causeOf(o)
  /\ pc' = "analyzed"
  /\ UNCHANGED <<geminiApiKey, model, nreq, body, elapsed, timer, prev,
                 modelCalls, callCount, reportCount, saved, status>>
  /\ UNCHANGED otherVars

\* The model call settles after the timer won the race: nobody listens.
ModelSettlesLate ==
  /\ ~awaitingRace(pc)
  /\ resultPromise = "pending"
  /\ resultPromise' = "settled"
  /\ UNCHANGED <<geminiApiKey, model, pc, nreq, body, elapsed, timer, outcome,
                 completion, cause, prev, modelCalls, callCount, reportCount,
                 saved, status>>
  /\ UNCHANGED otherVars

\* The timer callback rejects timeoutPromise: that settles the race if the
\* call still awaits it, and is lost otherwise.
TimerFires ==
  /\ timer = "armed"
  /\ timerDue(elapsed)
  /\ timer' = "fired"
  /\ IF awaitingRace(pc) /\ "timeoutPromise" \in racers
     THEN /\ outcome' = TimedOut
          /\ completion' = afterRace(TimedOut)
          /\ cause' = causeOf(TimedOut)
          /\ pc' = "analyzed"
     ELSE UNCHANGED <<outcome, completion, cause, pc>>
  /\ UNCHANGED <<geminiApiKey, model, nreq, body, elapsed, resultPromise, prev,
                 modelCalls, callCount, reportCount, saved, status>>
  /\ UNCHANGED otherVars

\* Time passes while a timer is armed; a due timer runs before more passes.
Tick ==
  /\ timer = "armed"
  /\ elapsed < timeoutMs
  /\ elapsed' = IF elapsed + TickMs > timeoutMs THEN timeoutMs ELSE elapsed + TickMs
  /\ UNCHANGED <<geminiApiKey, model, pc, nreq, body, timer, resultPromise,
                 outcome, completion, cause, prev, modelCalls, callCount,
                 reportCount, saved, status>>
  /\ UNCHANGED otherVars

\* The handler after await analyzeReport: new Report, save, respond.  A
\* rejection reaches errorHandler through asyncHandler.
SaveAndRespond ==
  /\ pc = "analyzed"
  /\ pc' = "responded"
  /\ IF completion.kind = "throw"
     THEN /\ status' = 500
          /\ UNCHANGED <<reportCount, saved>>
     ELSE LET doc == newReport(body, validate(body).data, completion.value) IN
          IF schemaErrors(doc) # {}
          THEN /\ status' = 400
               /\ UNCHANGED <<reportCount, saved>>
          ELSE /\ status' = 201
               /\ reportCount' = reportCount + 1
               /\ saved' = [kind |-> "doc", doc |-> doc]
  /\ UNCHANGED <<geminiApiKey, model, nreq, body, elapsed, timer, resultPromise,
                 outcome, completion, cause, prev, modelCalls, callCount>>
  /\ UNCHANGED otherVars

\* The response is out; the next request may come once the call's timer and
\* model promise are through.
NextRequest ==
  /\ pc = "responded"
  /\ timer # "armed"
  /\ resultPromise # "pending"
  /\ pc' = "idle"
  /\ UNCHANGED <<geminiApiKey, model, nreq, body, elapsed, timer, resultPromise,
                 outcome, completion, cause, prev, modelCalls, callCount,
                 reportCount, saved, status>>
  /\ UNCHANGED otherVars

Next ==
  \/ \E b \in Bodies : Submit(b)
  \/ \E o \in PipelineOutcomes : ModelSettles(o)
  \/ ModelSettlesLate
  \/ TimerFires
  \/ Tick
  \/ SaveAndRespond
  \/ NextRequest

Spec == Init /\ [][Next]_vars

\* ------------------------------------- the parsing of a reply, on its own
\* A configured analyzer whose model call has resolved with a reply text:
\* the call awaits the race and the reply is the outcome to come.
InitParse ==
  /\ geminiApiKey = TRUE
  /\ model = loadModel(geminiApiKey)
  /\ pc = "race"
  /\ nreq = 1
  /\ body = [description |-> Description(0, 10), category |-> undefined]
  /\ elapsed = 0
  /\ timer = "armed"
  /\ resultPromise = "pending"
  /\ outcome \in {Resolved(r) : r \in Replies}
  /\ completion = NoCompletion
  /\ cause = "none"
  /\ prev = NoPrev
  /\ modelCalls = 1
  /\ callCount = 1
  /\ reportCount = 0
  /\ saved = NoDoc
  /\ status = 0
  /\ aiStatus = NoStatus
  /\ calls = [i \in CallIds |-> NoCall]
  /\ locals = [i \in CallIds |-> NoOutcome]
  /\ heap = 0
  /\ InitBack

\* The race settles with the reply: lines 109 - 148 run to the return.
ParseReply ==
  /\ pc = "race"
  /\ resultPromise = "pending"
  /\ resultPromise' = "settled"
  /\ completion' = afterRace(outcome)
  /\ cause' = causeOf(outcome)
  /\ pc' = "analyzed"
  /\ UNCHANGED <<geminiApiKey, model, nreq, body, elapsed, timer, outcome, prev,
                 modelCalls, callCount, reportCount, saved, status>>
  /\ UNCHANGED otherVars

NextParse == ParseReply

ParseSpec == InitParse /\ [][NextParse]_vars

\* ------------------------------------------------ the status query
\* Variant: the analyzer counts as configured only while its last call did
\* not fail.
getAIStatus_lastCall ==
  [configured |-> model /\ cause = "none",
   provider |-> "Google Gemini",
   model |-> "gemini-2.5-flash"]

\* Lines 198 - 204: configured is !!model; nothing else is read or done.
getAIStatus ==
  [configured |-> model,
   provider |-> "Google Gemini",
   model |-> "gemini-2.5-flash"]

\* GET /health asks getAIStatus, at any moment of the pipeline.
GetAIStatus ==
  /\ aiStatus' = [asked |-> TRUE, answer |-> getAIStatus]
  /\ UNCHANGED <<pipelineVars, calls, locals, heap, backVars>>

\* Outcomes of the model call for the status query: a reply that parses, a
\* reply without an object, a text() that throws, a rejection.
StatusOutcomes ==
  { Resolved(Reply(<<>>, [category |-> "abuse", severity |-> "low",
                          summary |-> "Brief summary",
                          suggestions |-> [kind |-> "array", items |-> <<>>]], <<>>)),
    Resolved(ProseReply(<<Prose>>)),
    TextThrows,
    Rejected }

NextStatus ==
  \/ \E b \in Bodies : Submit(b)
  \/ \E o \in StatusOutcomes : ModelSettles(o)
  \/ ModelSettlesLate
  \/ TimerFires
  \/ Tick
  \/ SaveAndRespond
  \/ NextRequest
  \/ GetAIStatus

StatusSpec == Init /\ [][NextStatus]_vars

\* ------------------------------------- analyzeReport calls in flight together
\* Variant: "result" is a variable of the module, one for all calls.
frame_shared(i) == 1

\* Lines 109 - 111: result, response and text are const locals; every call
\* of analyzeReport has a frame of its own.
frame(i) == i

\* Variant: one result object is built at load and returned every time.
newObject_shared(h) == 1

\* Lines 131 - 142 and 166 - 191: every return builds its object literal
\* anew; objects are numbered as they are built.
newObject(h) == h + 1

\* Outcomes of the model calls in flight together: two replies that parse
\* and differ, a reply without an object, a rejection.
ConcOutcomes ==
  { Resolved(Reply(<<>>, [category |-> "abuse", severity |-> "low",
                          summary |-> "Brief summary",
                          suggestions |-> [kind |-> "array", items |-> <<>>]], <<>>)),
    Resolved(Reply(<<>>, [category |-> "corruption", severity |-> "high",
                          summary |-> undefined,
                          suggestions |-> [kind |-> "array",
                                           items |-> <<Suggestion("legal", "X", "Y", "Z")>>]], <<>>)),
    Resolved(ProseReply(<<Prose>>)),
    Rejected }

\* Call i returns what afterRace makes of the outcome o, in a new object.
returns(i, o) ==
  [calls[i] EXCEPT !.pc = "returned", !.completion = afterRace(o),
                   !.ref = newObject(heap)]

\* analyzeReport is called while other calls may be awaiting: lines 87 - 109.
Call(i) ==
  /\ calls[i].pc = "idle"
  /\ IF notConfigured(model)
     THEN /\ calls' = [calls EXCEPT ![i] =
                        [@ EXCEPT !.pc = "returned",
                                  !.completion = Return(getFallbackResponse),
                                  !.ref = newObject(heap)]]
          /\ heap' = newObject(heap)
          /\ UNCHANGED modelCalls
     ELSE /\ calls' = [calls EXCEPT ![i] =
                        [@ EXCEPT !.pc = "race", !.timer = "armed",
                                  !.resultPromise = "pending"]]
          /\ modelCalls' = generateContent(modelCalls)
          /\ UNCHANGED heap
  /\ UNCHANGED <<geminiApiKey, model, pc, nreq, body, elapsed, timer,
                 resultPromise, outcome, completion, cause, prev, callCount,
                 reportCount, saved, status, aiStatus, locals, backVars>>

\* The model call of call i settles.  If the call awaits the race, a
\* rejection is thrown into the outer catch at once, and a response is kept
\* in "result" while the call awaits result.response (line 110).
Settle(i, o) ==
  /\ calls[i].resultPromise = "pending"
  /\ IF ~awaitingRace(calls[i].pc)
     THEN /\ calls' = [calls EXCEPT ![i].resultPromise = "settled"]
          /\ UNCHANGED <<locals, heap>>
     ELSE IF o.kind = "rejected"
     THEN /\ calls' = [calls EXCEPT ![i] =
                        [returns(i, o) EXCEPT !.resultPromise = "settled",
                                              !.outcome = o]]
          /\ heap' = newObject(heap)
          /\ UNCHANGED locals
     ELSE /\ calls' = [calls EXCEPT ![i] =
                        [@ EXCEPT !.pc = "response", !.resultPromise = "settled",
                                  !.outcome = o]]
          /\ locals' = [locals EXCEPT ![frame(i)] = o]
          /\ UNCHANGED heap
  /\ UNCHANGED <<pipelineVars, aiStatus, backVars>>

\* Call i goes on after await result.response: lines 111 - 148, from
\* response.text() to the return, on the "result" of its frame.
Continue(i) ==
  /\ calls[i].pc = "response"
  /\ calls' = [calls EXCEPT ![i] = returns(i, locals[frame(i)])]
  /\ heap' = newObject(heap)
  /\ UNCHANGED <<pipelineVars, aiStatus, locals, backVars>>

\* The timer of call i fires: the call returns the fallback if it awaits
\* the race, and nothing happens otherwise.
Timeout(i) ==
  /\ calls[i].timer = "armed"
  /\ IF awaitingRace(calls[i].pc) /\ "timeoutPromise" \in racers
     THEN /\ calls' = [calls EXCEPT ![i] =
                        [returns(i, TimedOut) EXCEPT !.timer = "fired",
                                                     !.outcome = TimedOut]]
          /\ heap' = newObject(heap)
     ELSE /\ calls' = [calls EXCEPT ![i].timer = "fired"]
          /\ UNCHANGED heap
  /\ UNCHANGED <<pipelineVars, aiStatus, locals, backVars>>

NextConc ==
  \/ \E i \in CallIds : Call(i)
  \/ \E i \in CallIds, o \in ConcOutcomes : Settle(i, o)
  \/ \E i \in CallIds : Continue(i)
  \/ \E i \in CallIds : Timeout(i)

ConcSpec == Init /\ [][NextConc]_vars

\* The event loop runs a due timer callback, and time passes.
FairSpec == Spec /\ WF_vars(TimerFires) /\ WF_vars(Tick)

\* --------------------------------------------------- auth.js, Admin.js
\* A token is what jwt.sign made of an admin id and an expiry, a forgery of
\* one signed with another secret, text that is no JWT, or nothing.
Token(id, exp, signed) ==
  [kind |-> "jwt", adminId |-> id, exp |-> exp, signed |-> signed]
Garbage == [kind |-> "garbage", adminId |-> "", exp |-> 0, signed |-> FALSE]
NoToken == [kind |-> "empty", adminId |-> "", exp |-> 0, signed |-> FALSE]

\* The Authorization header: its scheme ("none" when absent) and what
\* follows the first space.
Header(scheme, token) == [scheme |-> scheme, token |-> token]

\* generateToken: jwt.sign({adminId, username}, secret, {expiresIn}).
generateToken(id, t) == Token(id, t + TokenTtl, TRUE)

\* jwt.verify(token, config.jwtSecret) at time t: the signature is checked
\* before the expiry.
verify(token, t) ==
  IF token.kind # "jwt" \/ ~token.signed THEN "JsonWebTokenError"
  ELSE IF t >= token.exp THEN "TokenExpiredError"
  ELSE "ok"

\* Admin.findById(id): the document, or null.
findById(store, id) ==
  IF id \in DOMAIN store /\ store[id].exists THEN store[id] ELSE NoAdmin

\* Variant: an admin that exists will do, active or not.
accountUsable_exists(admin) == admin.exists

\* !admin || !admin.isActive, negated.
accountUsable(admin) == admin.exists /\ admin.isActive

Unauthorized(error) == [status |-> 401, error |-> error, next |-> FALSE]

\* requireAdmin at time t on the collection store; lookupOk tells whether
\* Admin.findById resolves or rejects.
requireAdmin(header, store, t, lookupOk) ==
  IF header.scheme # "Bearer" THEN Unauthorized("Authentication required")
  ELSE IF header.token.kind = "empty" THEN Unauthorized("Authentication required")
  ELSE IF verify(header.token, t) = "TokenExpiredError" THEN Unauthorized("Token expired")
  ELSE IF verify(header.token, t) # "ok" THEN Unauthorized("Invalid token")
  ELSE IF ~lookupOk
  THEN [status |-> 500, error |-> "Authentication error", next |-> FALSE]
  ELSE IF ~accountUsable(findById(store, header.token.adminId))
  THEN Unauthorized("Unauthorized")
  ELSE [status |-> 200, error |-> "", next |-> TRUE]

\* The headers a request may carry: none, another scheme, "Bearer " alone,
\* text that is no token, a forged token, and every token issued so far.
Headers ==
  { Header("none", NoToken), Header("Basic", Garbage), Header("Bearer", NoToken),
    Header("Bearer", Garbage), Header("Bearer", Token("root", MaxTime + TokenTtl, FALSE)) }
  \cup {Header("Bearer", tk) : tk \in tokens}

\* A request to a route behind requireAdmin; the handler runs when next is
\* called.
Protected(h, lookupOk) ==
  /\ adminReq = NoRequest
  /\ adminReq' = [route |-> "protected", header |-> h, lookupOk |-> lookupOk,
                  at |-> now, found |-> admins, issued |-> tokens]
  /\ adminRes' = requireAdmin(h, admins, now, lookupOk)
  /\ UNCHANGED <<now, admins, tokens>>
  /\ UNCHANGED outsideAdmin

\* validation.js, loginSchema: the lengths of the usernames tried, and
\* toLowerCase on them.
usernameLength(s) ==
  CASE s = "ab" -> 2
    [] s \in {"root", "ROOT"} -> 4
    [] s = "ghost" -> 5
    [] OTHER -> 0

toLowerCase(s) == IF s = "ROOT" THEN "root" ELSE s

validateLogin(b) ==
  IF \/ b.username = undefined
     \/ usernameLength(b.username) < 3
     \/ usernameLength(b.username) > 50
     \/ b.password \in {undefined, ""}
  THEN [success |-> FALSE, data |-> b]
  ELSE [success |-> TRUE,
        data |-> [username |-> toLowerCase(b.username), password |-> b.password]]

\* Variant: the admin is looked up whether active or not.
findByCredentials_anyState(store, username, password) ==
  IF username \notin DOMAIN store \/ ~store[username].exists THEN NoAdmin
  ELSE IF store[username].password # password THEN NoAdmin
  ELSE store[username]

\* Admin.findByCredentials: findOne({username, isActive: true}), then
\* comparePassword; null unless both succeed.
findByCredentials(store, username, password) ==
  IF \/ username \notin DOMAIN store
     \/ ~store[username].exists
     \/ ~store[username].isActive
  THEN NoAdmin
  ELSE IF store[username].password # password THEN NoAdmin
  ELSE store[username]

LoginBodies ==
  { [username |-> "root", password |-> "s3cret"],
    [username |-> "ROOT", password |-> "s3cret"],
    [username |-> "root", password |-> "wrong"],
    [username |-> "ghost", password |-> "s3cret"],
    [username |-> "ab", password |-> "s3cret"],
    [username |-> "root", password |-> ""],
    [username |-> undefined, password |-> "s3cret"] }

LoginFailed ==
  [status |-> 401, error |-> "Authentication Failed",
   message |-> "Invalid username or password", token |-> NoToken]

\* POST /api/admin/login; a rejected query reaches errorHandler through
\* asyncHandler.
Login(b, lookupOk) ==
  /\ adminReq = NoRequest
  /\ adminReq' = [route |-> "login", body |-> b, lookupOk |-> lookupOk,
                  at |-> now, found |-> admins, issued |-> tokens]
  /\ LET v == validateLogin(b) IN
     IF ~v.success
     THEN /\ adminRes' = [status |-> 400, error |-> "Validation Error",
                          message |-> "Please provide username and password",
                          token |-> NoToken]
          /\ UNCHANGED <<admins, tokens>>
     ELSE IF ~lookupOk
     THEN /\ adminRes' = [status |-> 500, error |-> "Server Error",
                          message |-> "Server Error", token |-> NoToken]
          /\ UNCHANGED <<admins, tokens>>
     ELSE IF ~findByCredentials(admins, v.data.username, v.data.password).exists
     THEN /\ adminRes' = LoginFailed
          /\ UNCHANGED <<admins, tokens>>
     ELSE /\ admins' = [admins EXCEPT ![v.data.username].lastLogin = {now}]
          /\ tokens' = tokens \cup {generateToken(v.data.username, now)}
          /\ adminRes' = [status |-> 200, error |-> "",
                          message |-> "Login successful",
                          token |-> generateToken(v.data.username, now)]
  /\ UNCHANGED now
  /\ UNCHANGED outsideAdmin

\* The response is out.
AdminDone ==
  /\ adminReq # NoRequest
  /\ adminReq' = NoRequest
  /\ adminRes' = NoResponse
  /\ UNCHANGED <<now, admins, tokens>>
  /\ UNCHANGED outsideAdmin

\* The operator of the database deactivates, reactivates or deletes the
\* admin; no route of the API does.
SetActive(u, a) ==
  /\ admins[u].exists
  /\ admins[u].isActive # a
  /\ admins' = [admins EXCEPT ![u].isActive = a]
  /\ UNCHANGED <<now, tokens, adminReq, adminRes>>
  /\ UNCHANGED outsideAdmin

DeleteAdmin(u) ==
  /\ admins[u].exists
  /\ admins' = [admins EXCEPT ![u] = NoAdmin]
  /\ UNCHANGED <<now, tokens, adminReq, adminRes>>
  /\ UNCHANGED outsideAdmin

\* The wall clock advances.
ClockTick ==
  /\ now < MaxTime
  /\ now' = now + 1
  /\ UNCHANGED <<admins, tokens, adminReq, adminRes>>
  /\ UNCHANGED outsideAdmin

NextAdmin ==
  \/ \E h \in Headers, ok \in BOOLEAN : Protected(h, ok)
  \/ \E b \in LoginBodies, ok \in BOOLEAN : Login(b, ok)
  \/ AdminDone
  \/ \E u \in DOMAIN admins, a \in BOOLEAN : SetActive(u, a)
  \/ \E u \in DOMAIN admins : DeleteAdmin(u)
  \/ ClockTick

AdminSpec == Init /\ [][NextAdmin]_vars

\* ------------------------------------------- database.js, GET /health
maxRetries == 5
retryDelay == 5000

\* Variant: the delay is waited after every failure.
delayBeforeRetry_always(a) == a <= maxRetries

\* if (attempt < maxRetries) await the retry delay
delayBeforeRetry(a) == a < maxRetries

\* startServer calls connectDatabase, which makes its first attempt.
StartServer ==
  /\ dbPc = "boot"
  /\ dbPc' = "connecting"
  /\ attempt' = 1
  /\ tries' = tries + 1
  /\ UNCHANGED <<waited, connResult, isConnected, connectionError, listeners,
                 link, healthRes>>
  /\ UNCHANGED outsideDb

\* mongoose.connect resolves: lines 40 - 60, the flags, the three event
\* handlers, return true; startServer then listens.
ConnectResolves ==
  /\ dbPc = "connecting"
  /\ isConnected' = TRUE
  /\ connectionError' = null
  /\ listeners' = TRUE
  /\ link' = TRUE
  /\ connResult' = "true"
  /\ dbPc' = "listening"
  /\ UNCHANGED <<attempt, tries, waited, healthRes>>
  /\ UNCHANGED outsideDb

\* The loop goes to its next turn with attempt a: another attempt while
\* attempt <= maxRetries, or return false and startServer listens.
nextTurn(a) ==
  /\ attempt' = a
  /\ IF a <= maxRetries
     THEN /\ dbPc' = "connecting"
          /\ tries' = tries + 1
          /\ UNCHANGED connResult
     ELSE /\ dbPc' = "listening"
          /\ connResult' = "false"
          /\ UNCHANGED tries

\* mongoose.connect rejects: lines 62 - 69.
ConnectRejects ==
  /\ dbPc = "connecting"
  /\ connectionError' = "connect failed"
  /\ IF delayBeforeRetry(attempt)
     THEN /\ dbPc' = "waiting"
          /\ UNCHANGED <<attempt, tries, connResult>>
     ELSE nextTurn(attempt + 1)
  /\ UNCHANGED <<waited, isConnected, listeners, link, healthRes>>
  /\ UNCHANGED outsideDb

\* The retry delay is over.
RetryDue ==
  /\ dbPc = "waiting"
  /\ waited' = waited + retryDelay
  /\ nextTurn(attempt + 1)
  /\ UNCHANGED <<isConnected, connectionError, listeners, link, healthRes>>
  /\ UNCHANGED outsideDb

\* The connection, once made, emits an event: 'disconnected' when it
\* drops, 'reconnected' when it comes back, 'error' at any time; the
\* handlers of lines 45 - 58 run if they are registered.
ConnectionEvent(e) ==
  /\ connResult = "true"
  /\ CASE e = "disconnected" ->
            /\ link
            /\ link' = FALSE
            /\ isConnected' = IF listeners THEN FALSE ELSE isConnected
            /\ UNCHANGED connectionError
       [] e = "reconnected" ->
            /\ ~link
            /\ link' = TRUE
            /\ isConnected' = IF listeners THEN TRUE ELSE isConnected
            /\ UNCHANGED connectionError
       [] e = "error" ->
            /\ connectionError' = IF listeners THEN "error event" ELSE connectionError
            /\ connectionError' # connectionError
            /\ UNCHANGED <<link, isConnected>>
  /\ UNCHANGED <<dbPc, attempt, tries, waited, connResult, listeners, healthRes>>
  /\ UNCHANGED outsideDb

getDatabaseStatus == [isConnected |-> isConnected, error |-> connectionError]

\* Variant: an error on record makes the server unhealthy.
isHealthy_noError(dbStatus, aiStatusNow) ==
  dbStatus.isConnected /\ dbStatus.error = null

\* GET /health: const isHealthy = dbStatus.isConnected.
isHealthy(dbStatus, aiStatusNow) == dbStatus.isConnected

\* GET /health, served once the server listens.
Health ==
  /\ dbPc = "listening"
  /\ healthRes' = [asked |-> TRUE,
                   status |-> IF isHealthy(getDatabaseStatus, getAIStatus)
                              THEN 200 ELSE 503,
                   ai |-> getAIStatus.configured,
                   link |-> link,
                   error |-> connectionError]
  /\ UNCHANGED <<dbPc, attempt, tries, waited, connResult, isConnected,
                 connectionError, listeners, link>>
  /\ UNCHANGED outsideDb

NextDb ==
  \/ StartServer
  \/ ConnectResolves
  \/ ConnectRejects
  \/ RetryDue
  \/ \E e \in {"disconnected", "reconnected", "error"} : ConnectionEvent(e)
  \/ Health

DbSpec == Init /\ [][NextDb]_vars

\* Every mongoose.connect settles (serverSelectionTimeoutMS) and every
\* retry delay ends.
FairDbSpec ==
  DbSpec /\ WF_vars(StartServer) /\ WF_vars(ConnectResolves \/ ConnectRejects)
         /\ WF_vars(RetryDue)

\* ------------------------------- adminRoutes.js: the reports of the admin
ReportStatuses == {"new", "reviewing", "resolved", "archived"}

\* A submission is stored: the document of the handler with the _id and
\* the createdAt the store gives it, here its rank in the collection.
CreateReport(aiAnalysis) ==
  /\ reportReq = NoRequest
  /\ Len(reports) < MaxReports
  /\ reportReq' = [route |-> "submit", found |-> reports]
  /\ reportRes' = [status |-> 201, error |-> ""]
  /\ LET b == [description |-> Description(0, 10), category |-> "abuse"] IN
     reports' = Append(reports,
                  [id |-> Len(reports) + 1, createdAt |-> Len(reports) + 1]
                  @@ newReport(b, validate(b).data, aiAnalysis))
  /\ UNCHANGED outsideReports

\* Variant: the whole body is the update.
patchUpdate_wholeBody(b) ==
  {k \in DOMAIN b : IF k = "description" THEN b[k].present ELSE b[k] # undefined}

\* PATCH: the fields of the update object, status if truthy and adminNotes
\* if not undefined.
patchUpdate(b) ==
  (IF Truthy(b.status) THEN {"status"} ELSE {})
  \cup (IF b.adminNotes # undefined THEN {"adminNotes"} ELSE {})

\* Variant: the update is not validated.
updateErrors_none(b, update) == {}

\* runValidators: the validators of the paths the update sets.
updateErrors(b, update) ==
  IF "status" \in update /\ b.status \notin ReportStatuses THEN {"status"} ELSE {}

\* Report.findByIdAndUpdate(id, update): the document with the fields of
\* the update set from the body.
applyUpdate(doc, b, update) ==
  [k \in DOMAIN doc |-> IF k \in update THEN b[k] ELSE doc[k]]

PatchBodies ==
  { [status |-> s, adminNotes |-> undefined, description |-> NoDescription] :
      s \in ReportStatuses \cup {"bogus", "", undefined} }
  \cup { [status |-> undefined, adminNotes |-> "seen", description |-> NoDescription],
         [status |-> "resolved", adminNotes |-> "seen",
          description |-> Description(0, 11)] }

\* PATCH /api/admin/reports/:id, after requireAdmin; errors thrown reach
\* errorHandler.
PatchReport(id, b) ==
  /\ reportReq = NoRequest
  /\ reportReq' = [route |-> "patch", id |-> id, body |-> b, found |-> reports]
  /\ LET update == patchUpdate(b) IN
     IF update = {}
     THEN /\ reportRes' = [status |-> 400, error |-> "No updates provided"]
          /\ UNCHANGED reports
     ELSE IF updateErrors(b, update) # {}
     THEN /\ reportRes' = [status |-> 400, error |-> "Validation Error"]
          /\ UNCHANGED reports
     ELSE IF id \notin 1..Len(reports)
     THEN /\ reportRes' = [status |-> 404, error |-> "Report not found"]
          /\ UNCHANGED reports
     ELSE /\ reports' = [reports EXCEPT ![id] = applyUpdate(@, b, update)]
          /\ reportRes' = [status |-> 200, error |-> ""]
  /\ UNCHANGED outsideReports

\* reportFilterSchema: Number() of the page and limit strings tried; a
\* string that is no integer gives a number the checks refuse, here -1.
Number(s) ==
  CASE s = "0" -> 0
    [] s = "1" -> 1
    [] s = "2" -> 2
    [] s = "3" -> 3
    [] s = "20" -> 20
    [] s = "100" -> 100
    [] s = "101" -> 101
    [] OTHER -> -1

\* validate(reportFilterSchema, req.query).
validateFilter(q) ==
  LET page == Number(IF q.page = undefined THEN "1" ELSE q.page)
      limit == Number(IF q.limit = undefined THEN "20" ELSE q.limit)
  IN IF \/ q.category \notin AiCategories \cup {undefined}
        \/ q.status \notin ReportStatuses \cup {undefined}
        \/ page < 1
        \/ limit < 1
        \/ limit > 100
     THEN [success |-> FALSE, data |-> q]
     ELSE [success |-> TRUE,
           data |-> [category |-> q.category, status |-> q.status,
                     page |-> page, limit |-> limit]]

\* Variant: the page number itself is taken for the pages to skip.
skipOf_page(page, limit) == page * limit

\* const skip = (page - 1) * limit
skipOf(page, limit) == (page - 1) * limit

\* sort({createdAt: -1}) over the collection kept oldest first.
newestFirst(s) == [i \in 1..Len(s) |-> s[Len(s) + 1 - i]]

\* The query of GET /api/admin/reports and the response built from it.
listReports(store, d) ==
  LET matches(r) == /\ Truthy(d.category) => r.aiCategory = d.category
                    /\ Truthy(d.status) => r.status = d.status
      found == newestFirst(SelectSeq(store, matches))
      skip == skipOf(d.page, d.limit)
      totalCount == Len(found)
      totalPages == (totalCount + d.limit - 1) \div d.limit
      last == IF skip + d.limit < totalCount THEN skip + d.limit ELSE totalCount
  IN [status |-> 200,
      reports |-> [i \in 1..(IF last > skip THEN last - skip ELSE 0) |->
                     found[skip + i].id],
      currentPage |-> d.page,
      totalPages |-> totalPages,
      totalCount |-> totalCount,
      hasNextPage |-> d.page < totalPages,
      hasPrevPage |-> d.page > 1]

Queries ==
  [category : {undefined, "abuse"}, status : {undefined, "new"},
   page : {undefined, "2", "3"}, limit : {undefined, "1", "2"}]
  \cup { [category |-> undefined, status |-> undefined, page |-> p, limit |-> l] :
           <<p, l>> \in {<<"0", "1">>, <<"1.5", "1">>, <<"1", "101">>,
                         <<"1", "0">>, <<"1", "100">>} }
  \cup { [category |-> "spam", status |-> undefined, page |-> undefined,
          limit |-> undefined] }

\* GET /api/admin/reports, after requireAdmin.
ListReports(q) ==
  /\ reportReq = NoRequest
  /\ reportReq' = [route |-> "list", query |-> q, found |-> reports]
  /\ reportRes' = IF validateFilter(q).success
                  THEN listReports(reports, validateFilter(q).data)
                  ELSE [status |-> 400, error |-> "Invalid Query Parameters"]
  /\ UNCHANGED reports
  /\ UNCHANGED outsideReports

\* The response is out.
ReportDone ==
  /\ reportReq # NoRequest
  /\ reportReq' = NoRequest
  /\ reportRes' = NoResponse
  /\ UNCHANGED reports
  /\ UNCHANGED outsideReports

Analysed ==
  [aiAnalyzed |-> TRUE, aiCategory |-> "abuse", aiSeverity |-> "low",
   aiSummary |-> "Brief summary", aiSuggestions |-> <<>>]

NextPatch ==
  \/ CreateReport(getFallbackResponse)
  \/ \E id \in 1..MaxReports + 1, b \in PatchBodies : PatchReport(id, b)
  \/ ReportDone

PatchSpec == Init /\ [][NextPatch]_vars

NextList ==
  \/ \E a \in {getFallbackResponse, Analysed} : CreateReport(a)
  \/ \E id \in 1..MaxReports : PatchReport(id, [status |-> "resolved",
                                 adminNotes |-> undefined, description |-> NoDescription])
  \/ \E q \in Queries : ListReports(q)
  \/ ReportDone

ListSpec == Init /\ [][NextList]_vars

\* ------------------------------------------- the browser client of the admin
Paths == {"/", "/report", "/admin/login", "/admin", "/admin/reports/1"}
ProtectedPaths == {"/admin", "/admin/reports/1"}
Usernames == {"root", "ops", "aud"}

\* isAuthenticated() of the API client: !!getToken().
isAuthenticated(storage) == storage.safespeak_admin_token # null

\* clearToken(): localStorage.removeItem(TOKEN_KEY).
clearToken(storage) == [storage EXCEPT !.safespeak_admin_token = null]

\* The page a load of path p shows: ProtectedRoute sends a protected path
\* to the login page when no token is stored, and the login page's effect
\* sends an authenticated admin on to where they came from.
routed(p, storage) ==
  IF p \in ProtectedPaths /\ ~isAuthenticated(storage) THEN "/admin/login"
  ELSE IF p = "/admin/login" /\ isAuthenticated(storage) THEN "/admin"
  ELSE p

\* The browser opens path p: the page mounts and useAuth starts from the
\* storage.
Visit(p) ==
  /\ pathname' = routed(p, localStorage)
  /\ from' = IF p \in ProtectedPaths /\ ~isAuthenticated(localStorage) THEN p
             ELSE "/admin"
  /\ auth' = useState(localStorage)
  /\ UNCHANGED localStorage
  /\ UNCHANGED outsideClient

\* The login form is submitted: useAuth.login up to its await.
SubmitLogin ==
  /\ pathname = "/admin/login"
  /\ ~auth.isLoading
  /\ auth' = [auth EXCEPT !.isLoading = TRUE, !.error = null]
  /\ UNCHANGED <<localStorage, pathname, from>>
  /\ UNCHANGED outsideClient

\* The server answers the login 200 with a token and the profile of admin
\* u: api.login stores the token, useAuth.login the profile, and the page
\* navigates to from.
LoginSucceeds(u) ==
  /\ pathname = "/admin/login"
  /\ auth.isLoading
  /\ localStorage' = [safespeak_admin_token |-> u, safespeak_admin |-> u]
  /\ auth' = [isAuthenticated |-> TRUE, admin |-> u, isLoading |-> FALSE,
              error |-> null]
  /\ pathname' = routed(from, localStorage')
  /\ from' = "/admin"
  /\ UNCHANGED outsideClient

\* The login is refused with status s: on 401 the response interceptor
\* clears the token and, the page being the login page, does not redirect;
\* useAuth.login records the message.
LoginFails(s) ==
  /\ pathname = "/admin/login"
  /\ auth.isLoading
  /\ localStorage' = IF s = 401 THEN clearToken(localStorage) ELSE localStorage
  /\ auth' = [auth EXCEPT !.isLoading = FALSE,
                          !.error = IF s = 401 THEN "Invalid username or password"
                                    ELSE "Login failed. Please try again."]
  /\ UNCHANGED <<pathname, from>>
  /\ UNCHANGED outsideClient

\* useAuth.logout(), on a page that uses the hook.
logout ==
  /\ pathname \in ProtectedPaths \cup {"/admin/login"}
  /\ localStorage' = [clearToken(localStorage) EXCEPT !.safespeak_admin = null]
  /\ auth' = [auth EXCEPT !.isAuthenticated = FALSE, !.admin = null,
                          !.error = null]
  /\ UNCHANGED <<pathname, from>>
  /\ UNCHANGED outsideClient

\* A request of a protected page, sent with the stored token, is answered
\* 401: the response interceptor clears the token and loads the login
\* page, where useAuth starts from the storage.
Response401 ==
  /\ pathname \in ProtectedPaths
  /\ localStorage' = clearToken(localStorage)
  /\ pathname' = "/admin/login"
  /\ from' = "/admin"
  /\ auth' = useState(localStorage')
  /\ UNCHANGED outsideClient

NextClient ==
  \/ \E p \in Paths : Visit(p)
  \/ SubmitLogin
  \/ \E u \in Usernames : LoginSucceeds(u)
  \/ \E s \in {401, 500} : LoginFails(s)
  \/ logout
  \/ Response401

ClientSpec == Init /\ [][NextClient]_vars

\* ------------------------------------------------------------------ claims
ResultFields == {"aiAnalyzed", "aiCategory", "aiSeverity", "aiSummary", "aiSuggestions"}
SuggestionFields == {"type", "name", "description", "contact"}

IsAnalysisResult(v) ==
  /\ DOMAIN v = ResultFields
  /\ v.aiAnalyzed \in BOOLEAN
  /\ \A i \in 1..Len(v.aiSuggestions) : DOMAIN v.aiSuggestions[i] = SuggestionFields

C1_NeverRejects ==
  /\ completion.kind # "throw"
  /\ status # 500
  /\ pc \in {"analyzed"} => completion.kind = "return" /\ IsAnalysisResult(completion.value)

\* C1: analyzeReport never rejects, whatever the model call does (a reply of
\* any text, a rejection, a text() that throws, no settling at all): a
\* call that awaits the race always comes to return, and what it returns is
\* an analysis result.
C1_Total == []C1_NeverRejects /\ ((pc = "race") ~> (pc # "race"))

\* C1 witness: a call whose reply's text() threw has returned a result.
C1_Witness ==
  /\ pc = "analyzed"
  /\ outcome.kind = "resolved" /\ outcome.textThrows
  /\ completion.kind = "return"

\* C2: once the timer of a call has fired the call has returned, and no call
\* awaits the race with more than timeoutMs elapsed.
C2_Bounded ==
  /\ timer = "fired" => pc # "race"
  /\ pc = "race" => elapsed <= timeoutMs

\* C2 witness: the timer fired on a call that still awaited the race, and
\* the call has returned.
C2_Witness ==
  /\ timer = "fired"
  /\ outcome.kind = "timeout"
  /\ pc = "analyzed"
  /\ completion.kind = "return"

\* C3: a call that ended by timeout returned the fallback, with the timer
\* fired and timeoutMs elapsed, after one model call and no more; and when
\* the timer fires with the model call still unsettled, the call has
\* returned the fallback.
C3_TimeoutFallback ==
  /\ outcome.kind = "timeout" =>
       /\ timer = "fired"
       /\ elapsed >= timeoutMs
       /\ completion = Return(getFallbackResponse)
       /\ callCount = 1
  /\ timer = "fired" /\ resultPromise = "pending" =>
       /\ outcome.kind = "timeout"
       /\ completion = Return(getFallbackResponse)

\* C3 witness: the model call never settled, the timer fired, the fallback
\* was stored and answered with 201.
C3_Witness ==
  /\ outcome.kind = "timeout"
  /\ resultPromise = "pending"
  /\ pc = "responded"
  /\ status = 201

\* C4: without a configured key no model call is ever issued, over any
\* sequence of calls, and every call returns the fallback, aiAnalyzed false.
C4_NoCredential ==
  ~geminiApiKey =>
    /\ modelCalls = 0
    /\ callCount = 0
    /\ resultPromise = "none"
    /\ completion.kind # "none" =>
         /\ completion = Return(getFallbackResponse)
         /\ completion.value.aiAnalyzed = FALSE

\* C4 witness: the second call in a row of an analyzer without a key.
C4_Witness ==
  /\ ~geminiApiKey
  /\ nreq = 2
  /\ prev.failed
  /\ pc = "analyzed"

\* C5: every call that failed, for whatever cause, returned one and the same
\* value, equal field by field to what the previous failed call returned.
C5_SameFallback ==
  completion.kind = "return" /\ cause # "none" =>
    /\ completion.value = getFallbackResponse
    /\ prev.failed => completion.value = prev.value

\* C5 witness: two calls in a row failed for different causes.
C5_Witness ==
  /\ pc = "analyzed"
  /\ completion.kind = "return"
  /\ prev.failed
  /\ cause \notin {"none", prev.cause}

\* The fixed payload of lines 165 - 192, written out.
FixedPayload ==
  [aiAnalyzed |-> FALSE,
   aiCategory |-> "unknown",
   aiSeverity |-> "unknown",
   aiSummary |-> "Your report has been received. Our automated analysis is temporarily unavailable, but your report will be reviewed by our team.",
   aiSuggestions |-> <<
     [type |-> "hotline", name |-> "National Human Rights Helpline",
      description |-> "General support for human rights issues",
      contact |-> "1800-XXX-XXXX (toll-free)"],
     [type |-> "ngo", name |-> "Local Support Services",
      description |-> "Connect with local NGOs that can provide guidance",
      contact |-> "Visit your local community center"],
     [type |-> "legal", name |-> "Free Legal Aid",
      description |-> "Many areas offer free legal consultation",
      contact |-> "Search \"free legal aid\" + your location"] >>]

\* C6: a result with aiAnalyzed false has category unknown, severity unknown
\* and the three fixed suggestions hotline, ngo, legal in this order: it is
\* the fixed payload, also when the reply lacked a required field and
\* supplied the others.
C6_UnanalyzedIsFixed ==
  completion.kind = "return" =>
    /\ ~completion.value.aiAnalyzed =>
         /\ completion.value.aiCategory = "unknown"
         /\ completion.value.aiSeverity = "unknown"
         /\ [i \in 1..Len(completion.value.aiSuggestions) |->
               completion.value.aiSuggestions[i].type] = <<"hotline", "ngo", "legal">>
         /\ completion.value = FixedPayload
    /\ cause = "Missing required fields in AI response" =>
         completion.value = FixedPayload

\* C6 witness: a reply with a category, a summary and a suggestion but no
\* severity was answered with an unanalyzed result.
C6_Witness ==
  /\ pc = "analyzed"
  /\ cause = "Missing required fields in AI response"
  /\ outcome.reply.obj.category = "abuse"
  /\ outcome.reply.obj.severity = undefined
  /\ outcome.reply.obj.summary = "Brief summary"
  /\ outcome.reply.obj.suggestions.kind = "array"
  /\ ~completion.value.aiAnalyzed

\* The values the prompt allows (lines 52 - 57).
PromptCategories == {"harassment", "corruption", "abuse", "discrimination", "other"}
PromptSeverities == {"low", "medium", "high", "critical"}
PromptTypes == {"ngo", "legal", "hotline", "journalist", "government"}

\* C7: a result with aiAnalyzed true has a category and a severity of the
\* enumerations; a reply with another value is replaced by the fallback.
C7_Enumerated ==
  completion.kind = "return" /\ completion.value.aiAnalyzed =>
    /\ completion.value.aiCategory \in PromptCategories
    /\ completion.value.aiSeverity \in PromptSeverities

\* C8: a request whose body the validation accepted is answered 201 with
\* one report stored that carries the analysis, whatever the model did.
C8_Persisted ==
  pc = "responded" /\ validate(body).success =>
    /\ status = 201
    /\ saved.kind = "doc"
    /\ completion.kind = "return"
    /\ saved.doc.aiCategory = completion.value.aiCategory
    /\ saved.doc.aiSuggestions = completion.value.aiSuggestions

\* A reply object of the shape the prompt asks for: category and severity of
\* the enumerations, suggestions an array of objects with a type of the
\* enumeration, a name, a description and a contact (strings, of which the
\* description and the contact may be empty).
IsString(v) == v \notin {undefined, null}
WellFormedSuggestion(s) ==
  /\ s.kind = "object"
  /\ s.type \in PromptTypes
  /\ IsString(s.name) /\ s.name # ""
  /\ IsString(s.description)
  /\ IsString(s.contact)
WellFormed(o) ==
  /\ o.category \in PromptCategories
  /\ o.severity \in PromptSeverities
  /\ o.suggestions.kind = "array"
  /\ \A i \in 1..Len(o.suggestions.items) : WellFormedSuggestion(o.suggestions.items[i])

\* C9: a reply that is a well-formed object gives aiAnalyzed true, the
\* category and severity of the object, and its suggestions, as many and in
\* the same order, each with the type, name, description and contact it
\* came with.
C9_Verbatim ==
  /\ pc = "analyzed"
  /\ outcome.kind = "resolved" /\ outcome.reply.hasObj
  /\ outcome.reply.pre = <<>> /\ outcome.reply.post = <<>>
  /\ WellFormed(outcome.reply.obj)
  => LET o == outcome.reply.obj
         v == completion.value
     IN /\ completion.kind = "return"
        /\ v.aiAnalyzed
        /\ v.aiCategory = o.category
        /\ v.aiSeverity = o.severity
        /\ Len(v.aiSuggestions) = Len(o.suggestions.items)
        /\ \A i \in 1..Len(o.suggestions.items) :
             /\ v.aiSuggestions[i].type = o.suggestions.items[i].type
             /\ v.aiSuggestions[i].name = o.suggestions.items[i].name
             /\ v.aiSuggestions[i].description = o.suggestions.items[i].description
             /\ v.aiSuggestions[i].contact = o.suggestions.items[i].contact

\* C9 witness: a well-formed reply with two different suggestions, analyzed.
C9_Witness ==
  /\ pc = "analyzed"
  /\ outcome.reply.hasObj
  /\ outcome.reply.pre = <<>> /\ outcome.reply.post = <<>>
  /\ WellFormed(outcome.reply.obj)
  /\ outcome.reply.obj.suggestions.items
       = <<Suggestion("ngo", "N", "", ""), Suggestion("legal", "X", "Y", "Z")>>
  /\ completion.value.aiAnalyzed

\* C10: a reply made of any text, a well-formed object and any text again
\* (text with braces of its own too) gives aiAnalyzed true with the
\* category and severity of the object.
C10_ExtractedFromProse ==
  /\ pc = "analyzed"
  /\ outcome.kind = "resolved" /\ outcome.reply.hasObj
  /\ WellFormed(outcome.reply.obj)
  => /\ completion.kind = "return"
     /\ completion.value.aiAnalyzed
     /\ completion.value.aiCategory = outcome.reply.obj.category
     /\ completion.value.aiSeverity = outcome.reply.obj.severity

\* Whether the span from the first "{" to the last "}" of a reply is the
\* object the reply carries: no "{" before it and no "}" after it.
SpanIsObject(r) ==
  /\ r.hasObj
  /\ \A i \in 1..Len(r.pre) : r.pre[i] # LB
  /\ \A i \in 1..Len(r.post) : r.post[i] # RB

Absent(v) == v = undefined
Falsy(v) == v \in {undefined, null, ""}

\* C11 as claimed: aiAnalyzed is true exactly when the span parses and
\* category, severity and suggestions are present, whatever their values.
C11_PresenceOnly ==
  pc = "analyzed" /\ outcome.kind = "resolved" =>
    (completion.kind = "return" /\ completion.value.aiAnalyzed
     <=> /\ SpanIsObject(outcome.reply)
         /\ ~Absent(outcome.reply.obj.category)
         /\ ~Absent(outcome.reply.obj.severity)
         /\ outcome.reply.obj.suggestions.kind # "undefined")

\* C11 amended: aiAnalyzed is true exactly when the span from the first "{"
\* to the last "}" parses as a JSON object in which category and severity
\* are truthy (not absent, null or empty) and suggestions is an array, empty
\* or not, without a null element; in every other case the result is the
\* fallback.
C11_TruthyFields ==
  pc = "analyzed" /\ outcome.kind = "resolved" =>
    /\ completion.kind = "return"
    /\ completion.value.aiAnalyzed
       <=> /\ SpanIsObject(outcome.reply)
           /\ ~Falsy(outcome.reply.obj.category)
           /\ ~Falsy(outcome.reply.obj.severity)
           /\ outcome.reply.obj.suggestions.kind = "array"
           /\ \A i \in 1..Len(outcome.reply.obj.suggestions.items) :
                outcome.reply.obj.suggestions.items[i].kind # "null"
    /\ ~completion.value.aiAnalyzed => completion.value = FixedPayload

\* C11 witness: a reply whose category is present but empty got the
\* fallback, its severity and its empty suggestions list being in order.
C11_Witness ==
  /\ pc = "analyzed"
  /\ SpanIsObject(outcome.reply)
  /\ outcome.reply.obj.category = ""
  /\ outcome.reply.obj.severity = "low"
  /\ outcome.reply.obj.suggestions = [kind |-> "array", items |-> <<>>]
  /\ completion.value = FixedPayload

\* C12 as claimed: on success only absent fields get a default; a field that
\* is present is left as it came.
C12_AbsentOnly ==
  pc = "analyzed" /\ completion.kind = "return" /\ completion.value.aiAnalyzed =>
    LET o == outcome.reply.obj
        v == completion.value
    IN /\ v.aiSummary = IF Absent(o.summary) THEN "Analysis completed" ELSE o.summary
       /\ Len(v.aiSuggestions) = Len(o.suggestions.items)
       /\ \A i \in 1..Len(o.suggestions.items) :
            LET s == o.suggestions.items[i] IN
            /\ v.aiSuggestions[i].type = IF Absent(s.type) THEN "other" ELSE s.type
            /\ v.aiSuggestions[i].name = IF Absent(s.name) THEN "Resource" ELSE s.name
            /\ v.aiSuggestions[i].description = IF Absent(s.description) THEN "" ELSE s.description
            /\ v.aiSuggestions[i].contact = IF Absent(s.contact) THEN "" ELSE s.contact

\* C12 amended: on success a field that is absent, null or empty gets its
\* default (summary "Analysis completed"; per suggestion type "other", name
\* "Resource", description and contact the empty string), every other
\* field is kept as it came, and the suggestions are as many as the reply's,
\* none for an empty list.
C12_FalsyDefaults ==
  pc = "analyzed" /\ completion.kind = "return" /\ completion.value.aiAnalyzed =>
    LET o == outcome.reply.obj
        v == completion.value
    IN /\ v.aiSummary = IF Falsy(o.summary) THEN "Analysis completed" ELSE o.summary
       /\ Len(v.aiSuggestions) = Len(o.suggestions.items)
       /\ \A i \in 1..Len(o.suggestions.items) :
            LET s == o.suggestions.items[i] IN
            /\ v.aiSuggestions[i].type = IF Falsy(s.type) THEN "other" ELSE s.type
            /\ v.aiSuggestions[i].name = IF Falsy(s.name) THEN "Resource" ELSE s.name
            /\ v.aiSuggestions[i].description = IF Falsy(s.description) THEN "" ELSE s.description
            /\ v.aiSuggestions[i].contact = IF Falsy(s.contact) THEN "" ELSE s.contact

\* C12 witness: a successful parse of a reply with an empty summary and a
\* suggestion without any field.
C12_Witness ==
  /\ pc = "analyzed"
  /\ completion.value.aiAnalyzed
  /\ outcome.reply.obj.summary = ""
  /\ outcome.reply.obj.suggestions.items = <<EmptySuggestion>>

\* C13: every suggestion of every result has a type of the enumeration or
\* the default "other".
C13_TypeEnumerated ==
  completion.kind = "return" =>
    \A i \in 1..Len(completion.value.aiSuggestions) :
      completion.value.aiSuggestions[i].type \in PromptTypes \cup {"other"}

\* C14: the summary of every result has at most 500 characters.
C14_SummaryBounded ==
  completion.kind = "return" => length(completion.value.aiSummary) <= 500

\* The call of analyzeReport(description) has been made for the request.
analyzerCalled == pc \in {"race", "analyzed"}

\* C15: every text handed to analyzeReport by the handler has between 10
\* and 5000 characters.
C15_LengthInRange ==
  analyzerCalled =>
    /\ rawLength(validate(body).data.description) >= 10
    /\ rawLength(validate(body).data.description) <= 5000

\* C17: a call of analyzeReport issues at most one model call, none after a
\* failure, a timeout or a malformed reply; every call of a configured
\* analyzer issues its own, and its result comes from its own outcome.
C17_SingleAttempt ==
  /\ [](callCount <= 1)
  /\ [](completion.kind = "return" =>
          IF completion.value.aiAnalyzed
          THEN /\ outcome.kind = "resolved"
               /\ SpanIsObject(outcome.reply)
               /\ completion.value.aiCategory = outcome.reply.obj.category
               /\ completion.value.aiSeverity = outcome.reply.obj.severity
          ELSE completion.value = FixedPayload)
  /\ [][/\ modelCalls' # modelCalls =>
             pc = "idle" /\ pc' = "race" /\ modelCalls' = modelCalls + 1
        /\ pc = "idle" /\ pc' \in {"race", "analyzed"} /\ model =>
             modelCalls' = modelCalls + 1 /\ callCount' = 1
        /\ callCount' # callCount => pc = "idle"]_vars

\* C17 witness: the second call, made after a failed one, issued its own
\* single model call, which was rejected, and returned the fallback.
C17_Witness ==
  /\ nreq = 2
  /\ prev.failed
  /\ modelCalls = 2
  /\ callCount = 1
  /\ outcome.kind = "rejected"
  /\ completion.kind = "return"

\* A step in which the other branch of a race settles after analyzeReport
\* has returned.
LoserSettles ==
  /\ completion.kind = "return"
  /\ nreq' = nreq
  /\ timer' # timer \/ resultPromise' # resultPromise

\* C19: once analyzeReport has returned, the later settling of the other
\* branch changes neither the result returned nor the analyzer's state, and
\* no error reaches the caller.
C19_LoserDiscarded ==
  [][LoserSettles =>
       /\ completion' = completion
       /\ outcome' = outcome
       /\ cause' = cause
       /\ pc' = pc
       /\ status' = status
       /\ status' # 500
       /\ model' = model
       /\ modelCalls' = modelCalls
       /\ callCount' = callCount
       /\ saved' = saved
       /\ reportCount' = reportCount]_vars

\* C19 witness: the report was stored with the analysis of the model's
\* reply and the timer of the call fired afterwards.
C19_Witness ==
  /\ pc = "responded"
  /\ status = 201
  /\ outcome.kind = "resolved"
  /\ completion.value.aiAnalyzed
  /\ timer = "fired"
  /\ resultPromise = "settled"

\* The paths of the Report schema (the timestamps are added by the store).
StoredFields ==
  {"description", "userSelectedCategory", "aiCategory", "aiSeverity",
   "aiSummary", "aiSuggestions", "aiAnalyzed", "status", "adminNotes",
   "createdAt", "updatedAt"}

\* C20: a stored report has only the description, the user's category, the
\* analysis fields, status, admin notes and timestamps, whatever other
\* fields the request body carried.
C20_NoIdentity ==
  saved.kind = "doc" =>
    /\ DOMAIN saved.doc \subseteq StoredFields
    /\ saved.doc.description = trim(body.description)
    /\ saved.doc.userSelectedCategory \in UserCategories \cup {null}

\* C20 witness: a request carrying name, email, phone and ip was stored.
C20_Witness ==
  /\ saved.kind = "doc"
  /\ status = 201
  /\ {"name", "email", "phone", "ip"} \subseteq DOMAIN body

\* C16: getAIStatus answers configured = true exactly when a credential was
\* configured at load, the query issues no model call, and its answer is the
\* same before and after every step of every analyzeReport call.
C16_StatusFixed ==
  /\ [](aiStatus.asked => aiStatus.answer.configured = geminiApiKey)
  /\ [](getAIStatus.configured = geminiApiKey)
  /\ [](~geminiApiKey /\ completion.kind = "return" =>
          completion.value = FixedPayload /\ modelCalls = 0)
  /\ [][/\ getAIStatus' = getAIStatus
        /\ aiStatus' # aiStatus =>
             /\ modelCalls' = modelCalls
             /\ callCount' = callCount
             /\ resultPromise' = resultPromise
             /\ timer' = timer
        /\ aiStatus.asked => aiStatus'.asked /\ aiStatus'.answer = aiStatus.answer]_vars

\* C16 witness: the status was asked after a call of a configured analyzer
\* had timed out, and says configured.
C16_Witness ==
  /\ aiStatus.asked
  /\ aiStatus.answer.configured
  /\ outcome.kind = "timeout"
  /\ completion.kind = "return"
  /\ nreq = 2

\* What a call must return, told from the configuration and from what
\* settled its own race.
OwnResult(o) ==
  IF model /\ o.kind = "resolved" /\ SpanIsObject(o.reply)
  THEN [aiAnalyzed |-> TRUE,
        aiCategory |-> o.reply.obj.category,
        aiSeverity |-> o.reply.obj.severity,
        aiSummary |-> IF Falsy(o.reply.obj.summary) THEN "Analysis completed"
                      ELSE o.reply.obj.summary,
        aiSuggestions |->
          [n \in 1..Len(o.reply.obj.suggestions.items) |->
             LET s == o.reply.obj.suggestions.items[n] IN
             [type |-> IF Falsy(s.type) THEN "other" ELSE s.type,
              name |-> IF Falsy(s.name) THEN "Resource" ELSE s.name,
              description |-> IF Falsy(s.description) THEN "" ELSE s.description,
              contact |-> IF Falsy(s.contact) THEN "" ELSE s.contact]]]
  ELSE FixedPayload

\* C18: under every interleaving of the calls, the result of each call is
\* told by the configuration and by what settled its own race, it is an
\* object no other call returned, and the configuration stays as loaded.
C18_Independent ==
  /\ model = geminiApiKey
  /\ \A i \in CallIds :
       calls[i].pc = "returned" =>
         /\ calls[i].completion = Return(OwnResult(calls[i].outcome))
         /\ \A j \in CallIds \ {i} :
              calls[j].pc = "returned" => calls[j].ref # calls[i].ref

\* C18 witness: two calls were in flight together; the one whose model call
\* settled first returned last, with its own analysis, and the other one
\* returned the fallback of a timeout.
C18_Witness ==
  /\ calls[1].pc = "returned"
  /\ calls[2].pc = "returned"
  /\ calls[1].ref > calls[2].ref
  /\ calls[1].completion.value.aiAnalyzed
  /\ calls[1].completion.value.aiCategory = "corruption"
  /\ calls[2].outcome.kind = "timeout"
  /\ calls[2].completion.value = FixedPayload


\* The request carries "Bearer <token>", the token was signed with the
\* secret and has not expired, and the admin it names exists and is active,
\* all at the time of the request.
Authentic(r) ==
  /\ r.header.scheme = "Bearer"
  /\ r.header.token.kind = "jwt"
  /\ r.header.token.signed
  /\ r.at < r.header.token.exp
  /\ r.header.token.adminId \in DOMAIN r.found
  /\ r.found[r.header.token.adminId].exists
  /\ r.found[r.header.token.adminId].isActive

\* The header and the token are in order, so that the admin is looked up.
LookedUp(r) ==
  /\ r.header.scheme = "Bearer"
  /\ r.header.token.kind = "jwt"
  /\ r.header.token.signed
  /\ r.at < r.header.token.exp

\* C21 as claimed: the handler runs only for an authentic request, and every
\* other request is answered 401 without running it.
C21_Only401 ==
  adminReq.route = "protected" =>
    /\ adminRes.next => Authentic(adminReq)
    /\ ~Authentic(adminReq) => adminRes.status = 401 /\ ~adminRes.next

\* C21 amended: the handler runs exactly when the request is authentic and
\* the lookup of the admin succeeds; a request that is not authentic never
\* runs it and is answered 401, or 500 when its header and token are in
\* order and the lookup of the admin fails.
C21_GuardedHandler ==
  adminReq.route = "protected" =>
    /\ adminRes.next <=> Authentic(adminReq) /\ adminReq.lookupOk
    /\ adminRes.status = 500 <=> LookedUp(adminReq) /\ ~adminReq.lookupOk
    /\ ~adminRes.next /\ adminRes.status # 500 => adminRes.status = 401

\* C21 witness: a token issued by a login, not expired, is refused with 401
\* after the admin was deactivated.
C21_Witness ==
  /\ adminReq.route = "protected"
  /\ adminReq.header.token \in tokens
  /\ adminReq.at < adminReq.header.token.exp
  /\ adminReq.lookupOk
  /\ admins["root"].exists
  /\ ~admins["root"].isActive
  /\ adminRes.status = 401
  /\ ~adminRes.next

\* Why a well-formed login finds no admin, told from the collection as the
\* request found it.
LoginCase(r) ==
  LET u == toLowerCase(r.body.username) IN
  IF u \notin DOMAIN r.found \/ ~r.found[u].exists THEN "unknown"
  ELSE IF ~r.found[u].isActive THEN "inactive"
  ELSE IF r.found[u].password # r.body.password THEN "wrong password"
  ELSE "match"

C23_BoundedRetries ==
  /\ [](tries <= 5)
  /\ [](waited = IF tries = 0 THEN 0 ELSE 5000 * (tries - 1))
  /\ [](connResult = "true" => waited = 5000 * (tries - 1) /\ listeners)
  /\ [](connResult = "false" => tries = 5 /\ waited = 5000 * 4 /\ ~listeners)
  /\ [](connResult \in {"none", "true", "false"})
  /\ [][connResult # "none" => tries' = tries /\ waited' = waited
                                /\ connResult' = connResult]_vars
  /\ <>(connResult # "none")

\* C23 witness: connectDatabase returned false after five attempts and four
\* delays.
C23_Witness ==
  /\ connResult = "false"
  /\ tries = 5
  /\ waited = 20000
  /\ dbPc = "listening"

\* C24: GET /health answers 200 exactly when the connection is up as the
\* last of connect-success, 'reconnected' and 'disconnected' left it, and 503
\* otherwise, whatever the AI service's configured flag and whether or not
\* an 'error' event was recorded.
C24_HealthFollowsLink ==
  /\ isConnected = link
  /\ healthRes.asked =>
       /\ healthRes.status = 200 <=> healthRes.link
       /\ healthRes.status = 503 <=> ~healthRes.link

\* C24 witness: the server answered 200 with the connection up again after
\* a drop, an 'error' event on record and no AI key configured.
C24_Witness ==
  /\ healthRes.asked
  /\ healthRes.status = 200
  /\ healthRes.error = "error event"
  /\ ~healthRes.ai


\* The fields of a report a PATCH may change.
Patchable == {"status", "adminNotes"}

C26_StatusEnumerated ==
  /\ \A i \in 1..Len(reports) : reports[i].status \in {"new", "reviewing", "resolved", "archived"}
  /\ reportReq.route = "submit" =>
       /\ Len(reports) = Len(reportReq.found) + 1
       /\ reports[Len(reports)].status = "new"
  /\ reportReq.route = "patch" =>
       /\ /\ reportReq.body.status \notin {"new", "reviewing", "resolved", "archived"}
          /\ Truthy(reportReq.body.status)
          => reportRes.status = 400 /\ reports = reportReq.found
       /\ /\ reportReq.body.status \in {"new", "reviewing", "resolved", "archived"}
          /\ reportReq.id \in 1..Len(reportReq.found)
          => reportRes.status = 200
             /\ reports[reportReq.id].status = reportReq.body.status

\* C26 witness: an archived report was set back to 'new'.
C26_Witness ==
  /\ reportReq.route = "patch"
  /\ reportReq.id \in 1..Len(reportReq.found)
  /\ reportReq.found[reportReq.id].status = "archived"
  /\ reportReq.body.status = "new"
  /\ reports[reportReq.id].status = "new"

\* The ids of the reports a valid query selects, newest first, told from
\* the collection as the request found it.
Selected(r) ==
  LET q == r.query
      keep(d) == /\ q.category # undefined => d.aiCategory = q.category
                 /\ q.status # undefined => d.status = q.status
      kept == SelectSeq(r.found, keep)
  IN [i \in 1..Len(kept) |-> kept[Len(kept) + 1 - i].id]

\* C27: for a valid page and limit (1 and 20 when not given) the response
\* holds the reports at positions (page-1)*limit+1 .. page*limit of the
\* filtered list, newest first, at most limit of them; totalPages is
\* ceil(totalCount/limit), hasNextPage tells whether filtered reports come
\* after this page and hasPrevPage whether page > 1.
C27_Pagination ==
  reportReq.route = "list" /\ reportRes.status = 200 =>
    LET page == IF reportReq.query.page = undefined THEN 1
                ELSE Number(reportReq.query.page)
        limit == IF reportReq.query.limit = undefined THEN 20
                 ELSE Number(reportReq.query.limit)
        sel == Selected(reportReq)
        shown == reportRes.reports
    IN /\ Len(shown) <= limit
       /\ \A p \in 1..Len(sel) :
            (page - 1) * limit + 1 <= p /\ p <= page * limit
            <=> /\ p - (page - 1) * limit \in 1..Len(shown)
                /\ shown[p - (page - 1) * limit] = sel[p]
       /\ Len(shown) > 0 => (page - 1) * limit + Len(shown) <= Len(sel)
       /\ reportRes.totalCount = Len(sel)
       /\ reportRes.totalPages * limit >= Len(sel)
       /\ (reportRes.totalPages - 1) * limit < Len(sel) \/ reportRes.totalPages = 0
       /\ reportRes.hasNextPage <=> page * limit < Len(sel)
       /\ reportRes.hasPrevPage <=> page > 1

\* C27 witness: the second page of one report each, out of three filtered
\* reports, has a page before it and a page after it.
C27_Witness ==
  /\ reportReq.route = "list"
  /\ reportRes.status = 200
  /\ reportReq.query.page = "2"
  /\ reportReq.query.limit = "1"
  /\ reportRes.totalCount = 3
  /\ Len(reportRes.reports) = 1
  /\ reportRes.hasNextPage
  /\ reportRes.hasPrevPage


\* C28: the admin profile is in localStorage only when a token is, and a
\* protected admin page is on screen only while a token is stored.
C28_ProfileWithToken ==
  /\ localStorage.safespeak_admin # null => localStorage.safespeak_admin_token # null
  /\ pathname \in {"/admin", "/admin/reports/1"} => localStorage.safespeak_admin_token # null

====
